---- MODULE Spec2Model ----
(***************************************************************************)
(* Routine builder (script.js): product filtering, selection, debounced    *)
(* search, chat with a completion endpoint, and the assistant-text         *)
(* formatter.  Texts are sequences of one-character strings.               *)
(***************************************************************************)
EXTENDS Integers, Sequences, FiniteSets, TLC

VARIABLES
    allProducts,           \* the product cache
    startup,               \* initProductCache: "pending" until its fetch settles
    passes,                \* applyFilters calls waiting in await loadProducts()
    categoryValue,         \* categoryFilter.value
    searchValue,           \* productSearch.value
    grid,                  \* the product cards in productsContainer
    selectedProducts,      \* the Map, as its entries in insertion order
    selectedList,          \* the items in selectedProductsListEl
    debT,                  \* debounce: t, the id of the last timer set (0: none)
    timers,                \* the pending timeouts: [id, left], left in ms
    sinceInput,            \* ms since the last input event, while a timer pends
    timerPasses,           \* applyFilters calls the timer made since that event
    conversationMessages,  \* the conversation history
    chatWindow,            \* the entries appended to chatWindow
    requests,              \* the completion requests in flight
    apiKey,                \* whether window.OPENAI_API_KEY is set
    consoleErrors,         \* the console.error calls of the script
    rejections,            \* callers of applyFilters calls that rejected, unhandled
    fmtText,    \* parseAssistantTextToNodes: the text of the outermost call
    fmtStack,   \* parseAssistantTextToNodes: the active calls, outermost first
    fmtNodes,   \* parseAssistantTextToNodes: what the outermost call returned
    fmtPc,      \* "idle" | "call" | "run" | "done"
    fmtSteps    \* parseAssistantTextToNodes: paragraphs visited and returns so far

fmtVars == <<fmtText, fmtStack, fmtNodes, fmtPc, fmtSteps>>

productVars == <<allProducts, startup, passes, categoryValue, searchValue, grid>>

selectionVars == <<selectedProducts, selectedList>>

debounceVars == <<debT, timers, sinceInput, timerPasses>>

chatVars == <<conversationMessages, chatWindow, requests, apiKey>>

errorVars == <<consoleErrors, rejections>>

vars == <<productVars, selectionVars, debounceVars, chatVars, errorVars, fmtVars>>

(***************************************************************************)
(* Strings                                                                 *)
(***************************************************************************)

\* What \s and String.prototype.trim treat as white space (the characters
\* of it that the modelled texts use).
WhiteSpace == {" ", "\n", "\r", "\t"}

Digits == {"0", "1", "2", "3", "4", "5", "6", "7", "8", "9"}

UpperChars == <<"A", "B", "C", "D", "E", "F", "G", "H", "I", "J", "K", "L", "M",
                "N", "O", "P", "Q", "R", "S", "T", "U", "V", "W", "X", "Y", "Z">>

LowerChars == <<"a", "b", "c", "d", "e", "f", "g", "h", "i", "j", "k", "l", "m",
                "n", "o", "p", "q", "r", "s", "t", "u", "v", "w", "x", "y", "z">>

\* String.prototype.toLowerCase, one character
ToLowerChar(c) ==
    IF \E i \in 1..Len(UpperChars) : UpperChars[i] = c
    THEN LowerChars[CHOOSE i \in 1..Len(UpperChars) : UpperChars[i] = c]
    ELSE c

\* String.prototype.toLowerCase (<<>> \o makes the result a tuple, its
\* characters computed once)
ToLowerCase(s) == <<>> \o [i \in 1..Len(s) |-> ToLowerChar(s[i])]

\* The number of consecutive characters of s, from index from on, that are in class
RECURSIVE SpanLen(_, _, _)
SpanLen(s, from, class) ==
    IF from <= Len(s) /\ s[from] \in class
    THEN 1 + SpanLen(s, from + 1, class)
    ELSE 0

\* String.prototype.trim
Trim(s) ==
    LET lead == SpanLen(s, 1, WhiteSpace)
        rest == SubSeq(s, lead + 1, Len(s))
        RECURSIVE Keep(_)
        Keep(n) == IF n > 0 /\ rest[n] \in WhiteSpace THEN Keep(n - 1) ELSE n
    IN  SubSeq(rest, 1, Keep(Len(rest)))

\* text.replace(/\r\n/g, "\n")
RECURSIVE ReplaceCRLF(_)
ReplaceCRLF(s) ==
    IF s = <<>> THEN <<>>
    ELSE IF Len(s) >= 2 /\ s[1] = "\r" /\ s[2] = "\n"
         THEN <<"\n">> \o ReplaceCRLF(SubSeq(s, 3, Len(s)))
         ELSE <<Head(s)>> \o ReplaceCRLF(Tail(s))

\* String.prototype.split("\n")
RECURSIVE SplitNewline(_)
SplitNewline(s) ==
    LET n == SpanLen(s, 1, {c \in {s[i] : i \in 1..Len(s)} : c /= "\n"})
    IN  IF n = Len(s) THEN <<s>>
        ELSE <<SubSeq(s, 1, n)>> \o SplitNewline(SubSeq(s, n + 2, Len(s)))

\* String.prototype.split(/\n\s*\n/): the leftmost "\n" that a later "\n" follows
\* with only white space between starts a separator, which runs (\s* is greedy) to
\* the last such "\n".
RECURSIVE SplitBlankLines(_)
SplitBlankLines(s) ==
    LET Ends(i) == {j \in (i + 1)..Len(s) :
                        /\ s[j] = "\n"
                        /\ \A k \in (i + 1)..(j - 1) : s[k] \in WhiteSpace}
        starts == {i \in 1..Len(s) : s[i] = "\n" /\ Ends(i) /= {}}
    IN  IF starts = {} THEN <<s>>
        ELSE LET i == CHOOSE x \in starts : \A y \in starts : x <= y
                 j == CHOOSE x \in Ends(i) : \A y \in Ends(i) : y <= x
             IN  <<SubSeq(s, 1, i - 1)>> \o SplitBlankLines(SubSeq(s, j + 1, Len(s)))

\* Array.prototype.join
RECURSIVE Join(_, _)
Join(parts, sep) ==
    IF parts = <<>> THEN <<>>
    ELSE IF Len(parts) = 1 THEN parts[1]
    ELSE parts[1] \o sep \o Join(Tail(parts), sep)

\* .map((p) => p.trim()).filter(Boolean)
TrimAndDropEmpty(parts) ==
    SelectSeq([i \in 1..Len(parts) |-> Trim(parts[i])], LAMBDA p : p /= <<>>)

\* String.prototype.includes
Includes(hay, needle) ==
    \E i \in 0..(Len(hay) - Len(needle)) :
        \A k \in 1..Len(needle) : hay[i + k] = needle[k]

(***************************************************************************)
(* Assistant text formatter: parseAssistantTextToNodes                     *)
(***************************************************************************)

\* /^\s*\d+[\.\)]\s+/ : the length of its match at the start of line, 0 for none
NumberedMarkerLen(line) ==
    LET ws == SpanLen(line, 1, WhiteSpace)
        ds == SpanLen(line, ws + 1, Digits)
        p  == ws + ds + 1
        sp == SpanLen(line, p + 1, WhiteSpace)
    IN  IF ds >= 1 /\ p <= Len(line) /\ line[p] \in {".", ")"} /\ sp >= 1
        THEN p + sp ELSE 0

\* The character U+2022 (a bullet), which a TLA+ string cannot hold
BulletChar == "U+2022"

\* /^\s*[-*\u2022]\s+/ : the length of its match at the start of line, 0 for none
BulletMarkerLen(line) ==
    LET p  == SpanLen(line, 1, WhiteSpace) + 1
        sp == SpanLen(line, p + 1, WhiteSpace)
    IN  IF p <= Len(line) /\ line[p] \in {"-", "*", BulletChar} /\ sp >= 1
        THEN p + sp ELSE 0

\* /^\s*Step\s*\d+[:\.\)]\s*/i : the length of its match at the start of line,
\* 0 for none
StepMarkerLen(line) ==
    LET ws  == SpanLen(line, 1, WhiteSpace)
        w   == ws + 4
        ws2 == SpanLen(line, w + 1, WhiteSpace)
        ds  == SpanLen(line, w + ws2 + 1, Digits)
        p   == w + ws2 + ds + 1
        sp  == SpanLen(line, p + 1, WhiteSpace)
    IN  IF /\ w <= Len(line)
           /\ ToLowerCase(SubSeq(line, ws + 1, w)) = <<"s", "t", "e", "p">>
           /\ ds >= 1
           /\ p <= Len(line)
           /\ line[p] \in {":", ".", ")"}
        THEN p + sp ELSE 0

\* Where /:\s*$/ matches in line: the leftmost colon followed by white space only
ColonTailAt(line) ==
    {i \in 1..Len(line) :
        line[i] = ":" /\ \A k \in (i + 1)..Len(line) : line[k] \in WhiteSpace}

\* Mutant of IsHeading: the test without lines.length > 1
IsHeading_AnyLength(lines) == lines /= <<>> /\ ColonTailAt(lines[1]) /= {}

\* lines.length > 1 && /:\s*$/.test(lines[0])
IsHeading(lines) == Len(lines) > 1 /\ ColonTailAt(lines[1]) /= {}

\* lines[0].replace(/:\s*$/, "")
HeadingText(line) ==
    LET at == ColonTailAt(line)
    IN  IF at = {} THEN line
        ELSE SubSeq(line, 1, (CHOOSE i \in at : \A j \in at : i <= j) - 1)

\* Mutant of HeadingRest: the lines joined without slice(1)
HeadingRest_NoSlice(lines) == Join(lines, <<"\n">>)

\* lines.slice(1).join("\n")
HeadingRest(lines) == Join(Tail(lines), <<"\n">>)

HeadingNode(text) == [tag |-> "h4", text |-> text, items |-> <<>>]

ParagraphNode(text) == [tag |-> "p", text |-> text, items |-> <<>>]

ListNode(tag, items) == [tag |-> tag, text |-> <<>>, items |-> items]

\* Mutant of ListKind: numbered whenever a line has a numeral marker
ListKind_NumberedFirst(lines) ==
    LET Count(MarkerLen(_)) ==
            Cardinality({i \in 1..Len(lines) : MarkerLen(lines[i]) > 0})
    IN  IF Count(NumberedMarkerLen) >= 1 THEN "numbered"
        ELSE IF Count(BulletMarkerLen) >= 1 THEN "bullet"
        ELSE IF Count(StepMarkerLen) >= 2 THEN "step"
        ELSE "none"

\* Which list a paragraph with no heading is: numbered when a line has a
\* numeral marker and none a bullet, bulleted the other way round, "Step N" when
\* neither holds and two lines or more start with it.
ListKind(lines) ==
    LET Count(MarkerLen(_)) ==
            Cardinality({i \in 1..Len(lines) : MarkerLen(lines[i]) > 0})
        isNumbered == Count(NumberedMarkerLen) >= 1
        isBullet   == Count(BulletMarkerLen) >= 1
        stepCount  == Count(StepMarkerLen)
    IN  IF isNumbered /\ ~isBullet THEN "numbered"
        ELSE IF isBullet /\ ~isNumbered THEN "bullet"
        ELSE IF stepCount >= 2 THEN "step"
        ELSE "none"

\* The marker test of a list of that kind
MarkerLen(kind, line) ==
    CASE kind = "numbered" -> NumberedMarkerLen(line)
      [] kind = "bullet"   -> BulletMarkerLen(line)
      [] kind = "step"     -> StepMarkerLen(line)
      [] OTHER             -> 0

\* li.textContent = text, for a line the marker starts
NewItem(items, line, m) == Append(items, Trim(SubSeq(line, m + 1, Len(line))))

\* Mutant of Continue: = in place of +=
Continue_Overwrite(items, line) ==
    IF items /= <<>>
    THEN [items EXCEPT ![Len(items)] = <<" ">> \o line]
    ELSE items

\* if (last) last.textContent += " " + line
Continue(items, line) ==
    IF items /= <<>>
    THEN [items EXCEPT ![Len(items)] = @ \o <<" ">> \o line]
    ELSE items

\* The li texts of one list: lines.forEach over the marker test
ListItems(lines, kind) ==
    LET items[n \in 0..Len(lines)] ==
            IF n = 0 THEN <<>>
            ELSE LET m == MarkerLen(kind, lines[n])
                 IN  IF m > 0
                     THEN NewItem(items[n - 1], lines[n], m)
                     ELSE Continue(items[n - 1], lines[n])
    IN  items[Len(lines)]

\* The node of a paragraph whose first line is no heading: an ol, a ul, or a p
\* of the lines joined by a space.
BlockOf(lines) ==
    LET kind == ListKind(lines)
    IN  IF kind = "none"
        THEN ParagraphNode(Join(lines, <<" ">>))
        ELSE ListNode(IF kind = "bullet" THEN "ul" ELSE "ol", ListItems(lines, kind))

\* The paragraphs a call works through: none for the empty text.
ParagraphsOf(text) ==
    IF text = <<>> THEN <<>>
    ELSE TrimAndDropEmpty(SplitBlankLines(Trim(ReplaceCRLF(text))))

\* para.split("\n").map((l) => l.trim()).filter(Boolean)
LinesOf(para) == TrimAndDropEmpty(SplitNewline(para))

\* One call of parseAssistantTextToNodes: its argument, the paragraphs it has
\* still to visit, and its nodes so far.
NewCall(text) == [text |-> text, paras |-> ParagraphsOf(text), nodes |-> <<>>]

\* The outermost call starts.
FmtCall ==
    /\ fmtPc = "call"
    /\ fmtStack' = <<NewCall(fmtText)>>
    /\ fmtPc' = "run"
    /\ fmtSteps' = 0
    /\ UNCHANGED <<fmtText, fmtNodes>>
    /\ UNCHANGED <<productVars, selectionVars, debounceVars, chatVars, errorVars>>

\* The innermost call visits its next paragraph: a heading pushes its h4 and
\* calls parseAssistantTextToNodes on the remaining lines; anything else pushes
\* one node.
FmtParagraph ==
    /\ fmtPc = "run"
    /\ LET d     == Len(fmtStack)
           top   == fmtStack[d]
       IN  /\ top.paras /= <<>>
           /\ LET lines == LinesOf(Head(top.paras))
              IN  IF IsHeading(lines)
                  THEN fmtStack' =
                         Append([fmtStack EXCEPT ![d].nodes =
                                    Append(@, HeadingNode(HeadingText(lines[1])))],
                                NewCall(HeadingRest(lines)))
                  ELSE fmtStack' =
                         [fmtStack EXCEPT ![d].nodes = Append(@, BlockOf(lines)),
                                          ![d].paras = Tail(@)]
    /\ fmtSteps' = fmtSteps + 1
    /\ UNCHANGED <<fmtText, fmtNodes, fmtPc>>
    /\ UNCHANGED <<productVars, selectionVars, debounceVars, chatVars, errorVars>>

\* The innermost call has visited all its paragraphs and returns its nodes: to
\* the heading branch of its caller, which pushes them and goes on to its next
\* paragraph, or as the result.
FmtReturn ==
    /\ fmtPc = "run"
    /\ LET d   == Len(fmtStack)
           top == fmtStack[d]
       IN  /\ top.paras = <<>>
           /\ IF d = 1
              THEN /\ fmtNodes' = top.nodes
                   /\ fmtStack' = <<>>
                   /\ fmtPc' = "done"
              ELSE /\ fmtStack' =
                         [SubSeq(fmtStack, 1, d - 1) EXCEPT
                             ![d - 1].nodes = @ \o top.nodes,
                             ![d - 1].paras = Tail(@)]
                   /\ UNCHANGED <<fmtNodes, fmtPc>>
    /\ fmtSteps' = fmtSteps + 1
    /\ UNCHANGED fmtText
    /\ UNCHANGED <<productVars, selectionVars, debounceVars, chatVars, errorVars>>

(***************************************************************************)
(* Products: the cache, applyFilters, the grid                             *)
(***************************************************************************)

MaxPasses == 2     \* applyFilters calls that may wait in loadProducts at once

Product(name, brand, category, image, description) ==
    [name |-> name, brand |-> brand, category |-> category, image |-> image,
     description |-> description]

\* data.products of products.json, as the model has it: two categories, one
\* product without description, and two products of the same name.
Catalog ==
    << Product(<<"A", " ", "b">>, <<"L", "o">>, "cleanser", "a.png", <<"G", "e", "l">>),
       Product(<<"C", "d">>, <<"L", "o">>, "moisturizer", "c.png", <<>>),
       Product(<<"A", " ", "b">>, <<"M", "a">>, "moisturizer", "m.png",
               <<"b", "a", "l", "m">>) >>

\* The values the category select offers, "" for none
Categories == {"", "cleanser", "moisturizer"}

\* The texts typed into the search box
SearchValues == {<<>>, <<" ", "L", "O", " ">>, <<"b", " ", "m">>}

\* `${p.name} ${p.brand || ""} ${p.description || ""}`.toLowerCase()
Hay(p) == ToLowerCase(p.name \o <<" ">> \o p.brand \o <<" ">> \o p.description)

\* (productSearch?.value || "").trim().toLowerCase()
QueryOf(value) == ToLowerCase(Trim(value))

\* Mutant of FilterProducts: the search filter over the catalog, not over the
\* products of the category
FilterProducts_SearchAll(products, category, value) ==
    LET q == QueryOf(value)
    IN  IF q /= <<>>
        THEN SelectSeq(products, LAMBDA p : Includes(Hay(p), q))
        ELSE IF category /= ""
             THEN SelectSeq(products, LAMBDA p : p.category = category)
             ELSE products

\* filtered, of applyFilters: the category filter, then the search filter
FilterProducts(products, category, value) ==
    LET q == QueryOf(value)
        byCategory ==
            IF category /= ""
            THEN SelectSeq(products, LAMBDA p : p.category = category)
            ELSE products
    IN  IF q /= <<>>
        THEN SelectSeq(byCategory, LAMBDA p : Includes(Hay(p), q))
        ELSE byCategory

\* encodeURIComponent, on the characters product names use: letters and digits
\* stay, a space becomes %20
EncodeURIComponent(str) ==
    Join([i \in 1..Len(str) |->
            IF str[i] = " " THEN <<"%", "2", "0">> ELSE <<str[i]>>], <<>>)

\* selectedProducts.has(key)
MapHas(map, key) == \E i \in 1..Len(map) : map[i].key = key

\* selectedProducts.delete(key)
MapDelete(map, key) == SelectSeq(map, LAMBDA e : e.key /= key)

\* selectedProducts.set(key, value): a new key goes last, a key the map has
\* keeps its place
MapSet(map, key, value) ==
    IF MapHas(map, key)
    THEN [i \in 1..Len(map) |->
            IF map[i].key = key THEN [key |-> key, value |-> value] ELSE map[i]]
    ELSE Append(map, [key |-> key, value |-> value])

\* Array.from(selectedProducts.values())
MapValues(map) == [i \in 1..Len(map) |-> map[i].value]

\* displayProducts: one card a product, marked selected when the map has its key
DisplayProducts(products, selected) ==
    [i \in 1..Len(products) |->
        [key      |-> EncodeURIComponent(products[i].name),
         name     |-> products[i].name,
         brand    |-> products[i].brand,
         image    |-> products[i].image,
         selected |-> MapHas(selected, EncodeURIComponent(products[i].name))]]

\* updateSelectedProductsList: one item a selected product, in the map's order
RenderSelected(selected) ==
    [i \in 1..Len(selected) |->
        [key  |-> EncodeURIComponent(selected[i].value.name),
         name |-> selected[i].value.name]]

\* The end of applyFilters, once the cache holds products: filter by the
\* category and the search text as they are now, display, update the list.
Render(products) ==
    /\ \E filtered \in {FilterProducts(products, categoryValue', searchValue')} :
          grid' = DisplayProducts(filtered, selectedProducts)
    /\ selectedList' = RenderSelected(selectedProducts)

\* Mutant of ApplyFilters: no loadProducts, whatever the cache holds
ApplyFilters_NoWait(origin) ==
    /\ Render(allProducts)
    /\ UNCHANGED <<allProducts, passes>>

\* Mutant of ApplyFilters: loadProducts whatever the cache holds
ApplyFilters_AlwaysFetch(origin) ==
    /\ Len(passes) < MaxPasses
    /\ passes' = Append(passes, origin)
    /\ UNCHANGED <<allProducts, grid, selectedList>>

\* applyFilters(), called by origin: with an empty cache it waits in
\* loadProducts; otherwise it runs to its end.
ApplyFilters(origin) ==
    IF allProducts = <<>>
    THEN /\ Len(passes) < MaxPasses
         /\ passes' = Append(passes, origin)
         /\ UNCHANGED <<allProducts, grid, selectedList>>
    ELSE /\ Render(allProducts)
         /\ UNCHANGED <<allProducts, passes>>

\* initProductCache: its loadProducts() resolves.
StartupLoaded ==
    /\ startup = "pending"
    /\ startup' = "done"
    /\ allProducts' = Catalog
    /\ UNCHANGED <<passes, categoryValue, searchValue, grid>>
    /\ UNCHANGED <<selectionVars, debounceVars, chatVars, errorVars, fmtVars>>

\* initProductCache: its loadProducts() rejects; the catch logs it.
StartupFailed ==
    /\ startup = "pending"
    /\ startup' = "done"
    /\ consoleErrors' = Append(consoleErrors, "Failed to load products:")
    /\ UNCHANGED <<allProducts, passes, categoryValue, searchValue, grid>>
    /\ UNCHANGED <<selectionVars, debounceVars, chatVars, rejections, fmtVars>>

RemoveAt(seq, k) == SubSeq(seq, 1, k - 1) \o SubSeq(seq, k + 1, Len(seq))

\* Mutant of PassLoaded: the cache filled, nothing displayed
PassLoaded_KeepsGrid(k) ==
    /\ k \in 1..Len(passes)
    /\ passes' = RemoveAt(passes, k)
    /\ allProducts' = Catalog
    /\ UNCHANGED <<categoryValue, searchValue, grid, selectedList>>
    /\ UNCHANGED <<startup, selectedProducts, debounceVars, chatVars, errorVars, fmtVars>>

\* A waiting applyFilters: its loadProducts() resolves, and it runs to its end.
PassLoaded(k) ==
    /\ k \in 1..Len(passes)
    /\ passes' = RemoveAt(passes, k)
    /\ allProducts' = Catalog
    /\ UNCHANGED <<categoryValue, searchValue>>
    /\ Render(Catalog)
    /\ UNCHANGED <<startup, selectedProducts, debounceVars, chatVars, errorVars, fmtVars>>

\* A waiting applyFilters: its loadProducts() rejects, and so does the call:
\* it has no try, and its callers (the change listener, the timer callback)
\* drop the promise it returns.
PassFailed(k) ==
    /\ k \in 1..Len(passes)
    /\ passes' = RemoveAt(passes, k)
    /\ rejections' = rejections \cup {passes[k]}
    /\ UNCHANGED <<allProducts, startup, categoryValue, searchValue, grid>>
    /\ UNCHANGED <<selectionVars, debounceVars, chatVars, consoleErrors, fmtVars>>

\* Mutant of CategoryChange: the selection emptied
CategoryChange_ClearsSelection(c) ==
    /\ c /= categoryValue
    /\ categoryValue' = c
    /\ UNCHANGED searchValue
    /\ ApplyFilters("change")
    /\ selectedProducts' = <<>>
    /\ UNCHANGED <<startup, debounceVars, chatVars, errorVars, fmtVars>>

\* categoryFilter "change"
CategoryChange(c) ==
    /\ c /= categoryValue
    /\ categoryValue' = c
    /\ UNCHANGED searchValue
    /\ ApplyFilters("change")
    /\ UNCHANGED <<startup, selectedProducts, debounceVars, chatVars, errorVars, fmtVars>>

(***************************************************************************)
(* The debounced search input                                              *)
(***************************************************************************)

WaitMs == 160      \* debounce(() => applyFilters(), 160)

MaxTimers == 2     \* timeouts the model lets pend at once

\* How far the clock moves in one step, in ms (up to the next timeout due)
TickSteps == {80, 160}

\* clearTimeout(id)
ClearTimeout(table, id) == {tm \in table : tm.id /= id}

\* The id setTimeout returns: one no pending timeout has, and not t's
NewTimerId(table, t) ==
    CHOOSE i \in 1..(MaxTimers + 2) :
        /\ i /= t /\ \A tm \in table : tm.id /= i
        /\ \A j \in 1..(i - 1) : j = t \/ \E tm \in table : tm.id = j

\* Mutant of Debounced: setTimeout without clearTimeout(t)
Debounced_NoClear(table, t) ==
    LET id == NewTimerId(table, t)
    IN  [timers |-> table \cup {[id |-> id, left |-> WaitMs]}, t |-> id]

\* The function debounce returns, called: clearTimeout(t); t = setTimeout(.., wait)
Debounced(table, t) ==
    LET cleared == ClearTimeout(table, t)
        id      == NewTimerId(cleared, t)
    IN  [timers |-> cleared \cup {[id |-> id, left |-> WaitMs]}, t |-> id]

\* productSearch "input": the text changed; the debounced applyFilters is called.
SearchInput(v) ==
    /\ v /= searchValue
    /\ searchValue' = v
    /\ LET d == Debounced(timers, debT)
       IN  /\ Cardinality(d.timers) <= MaxTimers
           /\ timers' = d.timers
           /\ debT' = d.t
    /\ sinceInput' = 0
    /\ timerPasses' = 0
    /\ UNCHANGED <<allProducts, startup, passes, categoryValue, grid>>
    /\ UNCHANGED <<selectionVars, chatVars, errorVars, fmtVars>>

\* Time passes, no further than the next timeout due.
Tick(d) ==
    /\ timers /= {}
    /\ \A tm \in timers : tm.left > 0
    /\ LET a == CHOOSE x \in {d} \cup {tm.left : tm \in timers} :
                    \A y \in {d} \cup {tm.left : tm \in timers} : x <= y
       IN  /\ timers' = {[tm EXCEPT !.left = @ - a] : tm \in timers}
           /\ sinceInput' = sinceInput + a
    /\ UNCHANGED <<debT, timerPasses>>
    /\ UNCHANGED <<productVars, selectionVars, chatVars, errorVars, fmtVars>>

\* A timeout is due: its callback calls applyFilters().
TimerFires(tm) ==
    /\ tm \in timers
    /\ tm.left = 0
    /\ timers' = timers \ {tm}
    /\ timerPasses' = timerPasses + 1
    /\ UNCHANGED <<categoryValue, searchValue>>
    /\ ApplyFilters("timer")
    /\ UNCHANGED <<debT, sinceInput>>
    /\ UNCHANGED <<startup, selectedProducts, chatVars, errorVars, fmtVars>>

(***************************************************************************)
(* Selection                                                               *)
(***************************************************************************)

\* Mutant of ToggleSelected: set, whether the map has the key or not
ToggleSelected_AlwaysSet(map, card) ==
    MapSet(map, card.key,
           [name |-> card.name, brand |-> card.brand, image |-> card.image])

\* The card click handler on selectedProducts: delete a key it has, set one
\* it has not
ToggleSelected(map, card) ==
    IF MapHas(map, card.key)
    THEN MapDelete(map, card.key)
    ELSE MapSet(map, card.key,
                [name |-> card.name, brand |-> card.brand, image |-> card.image])

\* productsContainer "click" on card i, outside its info button
CardClick(i) ==
    /\ i \in 1..Len(grid)
    /\ grid[i].key /= <<>>
    /\ selectedProducts' = ToggleSelected(selectedProducts, grid[i])
    /\ grid' = [grid EXCEPT ![i].selected = ~MapHas(selectedProducts, grid[i].key)]
    /\ selectedList' = RenderSelected(selectedProducts')
    /\ UNCHANGED <<allProducts, startup, passes, categoryValue, searchValue>>
    /\ UNCHANGED <<debounceVars, chatVars, errorVars, fmtVars>>

\* querySelector(`.product-card[data-key="${key}"]`): the first such card
FirstCardWith(cards, key) ==
    {i \in 1..Len(cards) :
        cards[i].key = key /\ \A j \in 1..(i - 1) : cards[j].key /= key}

\* selectedProductsListEl "click" on the remove button of item j
RemoveClick(j) ==
    /\ j \in 1..Len(selectedList)
    /\ selectedList[j].key /= <<>>
    /\ selectedProducts' = MapDelete(selectedProducts, selectedList[j].key)
    /\ selectedList' = RenderSelected(selectedProducts')
    /\ grid' = [i \in 1..Len(grid) |->
                 IF i \in FirstCardWith(grid, selectedList[j].key)
                 THEN [grid[i] EXCEPT !.selected = FALSE]
                 ELSE grid[i]]
    /\ UNCHANGED <<allProducts, startup, passes, categoryValue, searchValue>>
    /\ UNCHANGED <<debounceVars, chatVars, errorVars, fmtVars>>

(***************************************************************************)
(* Chat: the conversation history, the transcript, the requests            *)
(***************************************************************************)

MaxTurns == 2      \* chat submits and generate clicks the model follows

SystemMessage ==
    [role |-> "system",
     content |-> <<"You are a helpful skincare and beauty routine assistant. (...)">>]

\* Mutant of UserMessage: the system role
UserMessage_AsSystem(content) == [role |-> "system", content |-> content]

UserMessage(content) == [role |-> "user", content |-> content]

\* Mutant of AssistantMessage: the reply trimmed
AssistantMessage_Trimmed(content) == [role |-> "assistant", content |-> Trim(content)]

AssistantMessage(content) == [role |-> "assistant", content |-> content]

\* Mutant of PushMessage: unshift in place of push
PushMessage_Unshift(history, message) == <<message>> \o history

\* conversationMessages.push(message)
PushMessage(history, message) == Append(history, message)

\* The texts of the userInput box: a question with spaces around it, and a blank
UserInputs == {<<" ", "h", "i", "?", " ">>, <<" ">>}

\* The reply texts of the completion endpoint: data.choices[0].message.content
Replies == {<<"1", ".", " ", "o", "k", "\n">>}

DigitChars == <<"0", "1", "2", "3", "4", "5", "6", "7", "8", "9">>

\* `${n}`, of a number
RECURSIVE NumberText(_)
NumberText(n) ==
    IF n < 10 THEN <<DigitChars[n + 1]>>
    ELSE NumberText(n \div 10) \o <<DigitChars[(n % 10) + 1]>>

\* products.map((p, i) => `${i + 1}. ${p.name} (U+2014) ${p.brand}`).join("\n")
ProductListText(products) ==
    Join([i \in 1..Len(products) |->
            NumberText(i) \o <<".", " ">> \o products[i].name
                \o <<" ", "U+2014", " ">> \o products[i].brand],
         <<"\n">>)

\* userPrompt, of the generate handler
UserPrompt(products) ==
    <<"I have the following selected products:", "\n">>
        \o ProductListText(products)
        \o <<"\n", "\n", "Please create a personalized routine (...)", "\n", "\n",
             "Return a clear, numbered routine that a user can follow.">>

UserEntry(text) == [cls |-> "chat-user", text |-> text]

\* appendAssistantMessage(text): the container holds what the formatter makes
\* of text, or text itself in one p when it makes nothing
AssistantEntry(text) == [cls |-> "chat-assistant", text |-> text]

GenerateEntryText == <<"Generate routine for selected products.">>

PleaseSelectNotice ==
    <<"Please select one or more products before generating a routine.">>

NoKeyNotice ==
    <<"OpenAI API key not found. Add your key to secrets.js and reload the page.">>

ThinkingNotice == <<"Thinking(U+2026)">>

GeneratingNotice == <<"Generating a personalized routine...">>

\* `Error from OpenAI: ${resp.status} ${errText}`
HttpErrorNotice(status, errText) == <<"Error from OpenAI: ", status, " ", errText>>

NoResponseNotice == <<"No response from the API. Try again later.">>

\* `Request failed: ${err.message}`
RequestFailedNotice(message) == <<"Request failed: ", message>>

\* What a chat action renders when its request fails, whatever the cause
FailureNotices ==
    {NoKeyNotice, HttpErrorNotice("500", "server error"), NoResponseNotice,
     RequestFailedNotice("Failed to fetch")}

\* Mutant of RequestBody: the last two messages in place of the history
RequestBody_Window(history, maxTokens) ==
    [model |-> "gpt-4o",
     messages |-> SubSeq(history, Len(history) - 1, Len(history)),
     max_tokens |-> maxTokens]

\* The body of the POST: JSON.stringify({model, messages, max_tokens, temperature})
\* (temperature, 0.8 in both handlers, is left out: TLA+ has no fractions)
RequestBody(history, maxTokens) ==
    [model |-> "gpt-4o", messages |-> history, max_tokens |-> maxTokens]

\* The chat actions so far: user entries and "please select" notices
TurnsTaken ==
    Cardinality({i \in 1..Len(chatWindow) :
        chatWindow[i].cls = "chat-user" \/ chatWindow[i].text = PleaseSelectNotice})

\* After the user message is pushed: without a key, the notice; with one, the
\* placeholder and the POST of the full history.
SendOrRefuse(entry, history, placeholder, maxTokens) ==
    IF ~apiKey
    THEN /\ chatWindow' = chatWindow \o <<entry, AssistantEntry(NoKeyNotice)>>
         /\ UNCHANGED requests
    ELSE /\ chatWindow' = chatWindow \o <<entry, AssistantEntry(placeholder)>>
         /\ requests' = requests \cup {RequestBody(history, maxTokens)}

\* chatForm "submit" with raw in the userInput box
ChatSubmit(raw) ==
    /\ TurnsTaken < MaxTurns
    /\ Trim(raw) /= <<>>
    /\ conversationMessages' = PushMessage(conversationMessages, UserMessage(Trim(raw)))
    /\ SendOrRefuse(UserEntry(Trim(raw)), conversationMessages', ThinkingNotice, 500)
    /\ UNCHANGED apiKey
    /\ UNCHANGED <<productVars, selectionVars, debounceVars, errorVars, fmtVars>>

\* generateBtn "click"
GenerateClick ==
    /\ TurnsTaken < MaxTurns
    /\ LET products == MapValues(selectedProducts)
       IN  IF products = <<>>
           THEN /\ chatWindow' = Append(chatWindow, AssistantEntry(PleaseSelectNotice))
                /\ UNCHANGED <<conversationMessages, requests>>
           ELSE /\ conversationMessages' =
                      PushMessage(conversationMessages, UserMessage(UserPrompt(products)))
                /\ SendOrRefuse(UserEntry(GenerateEntryText), conversationMessages',
                                GeneratingNotice, 700)
    /\ UNCHANGED apiKey
    /\ UNCHANGED <<productVars, selectionVars, debounceVars, errorVars, fmtVars>>

\* Mutant of ReplyArrives: the reply put right after the messages of its request
ReplyArrives_AfterItsQuestion(r, content) ==
    /\ r \in requests
    /\ requests' = requests \ {r}
    /\ chatWindow' = Append(chatWindow, AssistantEntry(content))
    /\ conversationMessages' =
          Append(r.messages, AssistantMessage(content))
              \o SubSeq(conversationMessages, Len(r.messages) + 1,
                        Len(conversationMessages))
    /\ UNCHANGED apiKey
    /\ UNCHANGED <<productVars, selectionVars, debounceVars, errorVars, fmtVars>>

\* A request's response is ok and holds a reply: render it, push it.
ReplyArrives(r, content) ==
    /\ r \in requests
    /\ requests' = requests \ {r}
    /\ chatWindow' = Append(chatWindow, AssistantEntry(content))
    /\ conversationMessages' = PushMessage(conversationMessages, AssistantMessage(content))
    /\ UNCHANGED apiKey
    /\ UNCHANGED <<productVars, selectionVars, debounceVars, errorVars, fmtVars>>

\* Mutant of RequestFails: the notice pushed as the assistant's message
RequestFails_Pushes(r, notice) ==
    /\ r \in requests
    /\ requests' = requests \ {r}
    /\ chatWindow' = Append(chatWindow, AssistantEntry(notice))
    /\ conversationMessages' = PushMessage(conversationMessages, AssistantMessage(notice))
    /\ UNCHANGED apiKey
    /\ UNCHANGED <<productVars, selectionVars, debounceVars, errorVars, fmtVars>>

\* A request ends without a reply: the notice is rendered, nothing is pushed.
RequestFails(r, notice) ==
    /\ r \in requests
    /\ requests' = requests \ {r}
    /\ chatWindow' = Append(chatWindow, AssistantEntry(notice))
    /\ UNCHANGED <<conversationMessages, apiKey>>
    /\ UNCHANGED <<productVars, selectionVars, debounceVars, errorVars, fmtVars>>

\* !resp.ok
HttpError(r) == RequestFails(r, HttpErrorNotice("500", "server error"))

\* The response is ok and data?.choices?.[0]?.message?.content is missing or empty
EmptyReply(r) == RequestFails(r, NoResponseNotice)

\* fetch, resp.text() or resp.json() throws
FetchThrows(r) == RequestFails(r, RequestFailedNotice("Failed to fetch"))

(***************************************************************************)
(* The page after the script has run                                       *)
(***************************************************************************)

FmtIdle ==
    /\ fmtText = <<>>
    /\ fmtStack = <<>>
    /\ fmtNodes = <<>>
    /\ fmtPc = "idle"
    /\ fmtSteps = 0

Init ==
    /\ allProducts = <<>>
    /\ startup = "pending"
    /\ passes = <<>>
    /\ categoryValue = ""
    /\ searchValue = <<>>
    /\ grid = <<>>
    /\ selectedProducts = <<>>
    /\ selectedList = <<>>
    /\ debT = 0
    /\ timers = {}
    /\ sinceInput = 0
    /\ timerPasses = 0
    /\ conversationMessages = <<SystemMessage>>
    /\ chatWindow = <<>>
    /\ requests = {}
    /\ apiKey \in BOOLEAN
    /\ consoleErrors = <<>>
    /\ rejections = {}
    /\ FmtIdle

CatalogNext ==
    \/ StartupLoaded
    \/ StartupFailed
    \/ \E k \in 1..MaxPasses : PassLoaded(k) \/ PassFailed(k)
    \/ \E c \in Categories : CategoryChange(c)

SelectionNext ==
    \/ \E i \in 1..Len(Catalog) : CardClick(i)
    \/ \E j \in 1..Len(Catalog) : RemoveClick(j)

SearchNext ==
    \/ \E v \in SearchValues : SearchInput(v)
    \/ \E d \in TickSteps : Tick(d)
    \/ \E tm \in timers : TimerFires(tm)

ChatNext ==
    \/ \E raw \in UserInputs : ChatSubmit(raw)
    \/ GenerateClick
    \/ \E r \in requests :
          \/ \E content \in Replies : ReplyArrives(r, content)
          \/ HttpError(r)
          \/ EmptyReply(r)
          \/ FetchThrows(r)

\* The product picker: the catalog, the category filter, the selection
Spec == Init /\ [][CatalogNext \/ SelectionNext]_vars

\* The search box: the catalog, the category filter, the debounced search
SpecSearch == Init /\ [][CatalogNext \/ SearchNext]_vars

\* The catalog while every fetch of it succeeds
CatalogLoads ==
    \/ StartupLoaded
    \/ \E k \in 1..MaxPasses : PassLoaded(k)
    \/ \E c \in Categories : CategoryChange(c)

\* The picker whole, while every fetch of the catalog succeeds
SpecPicker == Init /\ [][CatalogLoads \/ SelectionNext \/ SearchNext]_vars

\* What the chat needs of the catalog: the cache filled, the moisturizers shown
ChatCatalogNext ==
    \/ StartupLoaded
    \/ \E k \in 1..MaxPasses : PassLoaded(k)
    \/ CategoryChange("moisturizer")

\* The chat, over a selection among the moisturizers
SpecChat == Init /\ [][ChatCatalogNext \/ SelectionNext \/ ChatNext]_vars

(***************************************************************************)
(* The formatter on every text of at most MaxLines lines, each line one of *)
(* LineShapes around a letter of its own.                                  *)
(***************************************************************************)

MaxLines == 3

\* The letter of line i: none of them occurs in a marker.
LineLetter(i) == LowerChars[21 + i]

LineShapes(x) ==
    << <<>>,
       <<x>>,
       <<x, ":">>,
       <<"1", ".", " ", x>>,
       <<"-", " ", x>>,
       <<"S", "t", "e", "p", " ", "1", ":", " ", x>>,
       <<" ", x, " ", "\r">>,
       <<" ">>,
       <<"s", "T", "E", "P", "2", ")", x>>,
       <<"2", ")", " ", x, ":">>,
       <<"1", ".", x>> >>

FormatInputs ==
    UNION {
        {Join([i \in 1..n |-> LineShapes(LineLetter(i))[f[i]]], <<"\n">>) :
            f \in [1..n -> 1..Len(LineShapes("a"))]} :
        n \in 0..MaxLines}

InitFormat == Init /\ apiKey

\* appendAssistantMessage hands a text to parseAssistantTextToNodes.
FmtInput ==
    /\ fmtPc = "idle"
    /\ fmtText' \in FormatInputs
    /\ fmtPc' = "call"
    /\ UNCHANGED <<fmtStack, fmtNodes, fmtSteps>>
    /\ UNCHANGED <<productVars, selectionVars, debounceVars, chatVars, errorVars>>

FmtRun == FmtCall \/ FmtParagraph \/ FmtReturn

NextFormat == FmtInput \/ FmtRun

SpecFormat == InitFormat /\ [][NextFormat]_vars

(***************************************************************************)
(* The formatter on one paragraph of at most MaxMixedLines lines that mix  *)
(* the markers                                                             *)
(***************************************************************************)

MaxMixedLines == 4

MixedShapes(x) ==
    << <<"1", ".", " ", x>>,
       <<"-", " ", x>>,
       <<"S", "t", "e", "p", " ", "1", ":", " ", x>>,
       <<x>>,
       <<x, ":">> >>

MixedInputs ==
    UNION {
        {Join([i \in 1..n |-> MixedShapes(LineLetter(i))[f[i]]], <<"\n">>) :
            f \in [1..n -> 1..Len(MixedShapes("a"))]} :
        n \in 1..MaxMixedLines}

\* appendAssistantMessage hands a one-paragraph text to parseAssistantTextToNodes.
FmtInputMixed ==
    /\ fmtPc = "idle"
    /\ fmtText' \in MixedInputs
    /\ fmtPc' = "call"
    /\ UNCHANGED <<fmtStack, fmtNodes, fmtSteps>>
    /\ UNCHANGED <<productVars, selectionVars, debounceVars, chatVars, errorVars>>

SpecMixed == InitFormat /\ [][FmtInputMixed \/ FmtRun]_vars

(***************************************************************************)
(* Claims about the formatter                                              *)
(***************************************************************************)

\* The lines of the input as written, split at "\n", each trimmed
RawLines ==
    IF fmtText = <<>> THEN <<>>
    ELSE LET raw == SplitNewline(fmtText) IN [i \in 1..Len(raw) |-> Trim(raw[i])]

NonEmptyRawLines == SelectSeq(RawLines, LAMBDA l : l /= <<>>)

CountChar(x, text) == Cardinality({i \in 1..Len(text) : text[i] = x})

SumOver(seq, F(_)) ==
    LET acc[n \in 0..Len(seq)] == IF n = 0 THEN 0 ELSE acc[n - 1] + F(seq[n])
    IN  acc[Len(seq)]

\* How often the character x occurs in the texts of the nodes
Occurrences(x, nodes) ==
    LET InItems(items) == SumOver(items, LAMBDA t : CountChar(x, t))
    IN  SumOver(nodes, LAMBDA n : CountChar(x, n.text) + InItems(n.items))

\* How many of the nodes hold the character x
BlocksHolding(x, nodes) ==
    Cardinality({k \in 1..Len(nodes) : Occurrences(x, <<nodes[k]>>) > 0})

\* The lines of a paragraph after its leading headings
RECURSIVE UnitBody(_)
UnitBody(lines) == IF IsHeading(lines) THEN UnitBody(Tail(lines)) ELSE lines

\* The lines of a list unit that come before its first marker line
LeadingUnmarked(lines) ==
    LET body == UnitBody(lines)
        kind == ListKind(body)
    IN  IF kind = "none" THEN {}
        ELSE {body[i] : i \in {j \in 1..Len(body) :
                                \A k \in 1..j : MarkerLen(kind, body[k]) = 0}}

\* Line i of the input is an unmarked line before the first marker of its list
IsLeadingUnmarked(i) ==
    \E n \in 1..Len(ParagraphsOf(fmtText)) :
        \E l \in LeadingUnmarked(LinesOf(ParagraphsOf(fmtText)[n])) :
            CountChar(LineLetter(i), l) > 0

\* C5 as stated: every non-empty line of the input appears in exactly one
\* produced block; none is dropped and none is duplicated.
C5_EveryLineInOneBlock ==
    fmtPc = "done" =>
        \A i \in 1..Len(RawLines) :
            RawLines[i] /= <<>> =>
                /\ Occurrences(LineLetter(i), fmtNodes) = 1
                /\ BlocksHolding(LineLetter(i), fmtNodes) = 1

\* C5 as amended: no line is duplicated, and every non-empty line appears in
\* exactly one block except the unmarked lines that come before the first marker
\* line of a list unit (numbered, bulleted or "Step N"), which are dropped.
C5_LinesKeptExceptLeadingUnmarked ==
    fmtPc = "done" =>
        \A i \in 1..Len(RawLines) :
            RawLines[i] /= <<>> =>
                IF IsLeadingUnmarked(i)
                THEN Occurrences(LineLetter(i), fmtNodes) = 0
                ELSE /\ Occurrences(LineLetter(i), fmtNodes) = 1
                     /\ BlocksHolding(LineLetter(i), fmtNodes) = 1

\* A finished run that dropped a line before the first marker and merged a
\* continuation line into an item (an item holding two lines' letters)
C5_Witness ==
    /\ fmtPc = "done"
    /\ \E i \in 1..Len(RawLines) :
          RawLines[i] /= <<>> /\ Occurrences(LineLetter(i), fmtNodes) = 0
    /\ \E k \in 1..Len(fmtNodes) : \E t \in 1..Len(fmtNodes[k].items) :
          \E i, j \in 1..Len(RawLines) :
              /\ i < j
              /\ CountChar(LineLetter(i), fmtNodes[k].items[t]) = 1
              /\ CountChar(LineLetter(j), fmtNodes[k].items[t]) = 1

\* The number of lines a call's text holds, over all its paragraphs
CallLineCount(text) == SumOver(ParagraphsOf(text), LAMBDA p : Len(LinesOf(p)))

NodeTags == {"h4", "ol", "ul", "p"}

\* The work the active calls have left: one return each, and two steps a line
\* of every paragraph not yet visited (the paragraph a call waits in is visited).
FmtWork ==
    LET Cost(paras) == SumOver(paras, LAMBDA p : 2 * Len(LinesOf(p)))
        d == Len(fmtStack)
    IN  SumOver([k \in 1..d |->
                    1 + Cost(IF k < d THEN Tail(fmtStack[k].paras)
                                      ELSE fmtStack[k].paras)],
                LAMBDA w : w)

\* The steps a run on this text may take: one return, and two steps a line
FmtStepBound == 1 + 2 * CallLineCount(fmtText)

\* C6: the formatter is total: each recursive call receives strictly fewer lines
\* than its caller; a running formatter always has a call to step, and the steps
\* taken plus the work left never exceed a bound the text fixes, so every run
\* ends; it returns a sequence of blocks, the empty one for an empty or blank
\* text.
C6_FormatterTotal ==
    /\ \A k \in 2..Len(fmtStack) :
          CallLineCount(fmtStack[k].text) < CallLineCount(fmtStack[k - 1].text)
    /\ fmtPc = "run" =>
          /\ fmtStack /= <<>>
          /\ fmtSteps + FmtWork <= FmtStepBound
    /\ fmtPc = "done" =>
          /\ fmtSteps <= FmtStepBound
          /\ \A k \in 1..Len(fmtNodes) : fmtNodes[k].tag \in NodeTags
          /\ (Trim(fmtText) = <<>> => fmtNodes = <<>>)

\* A call made by a call that a call made: a heading inside a heading
C6_Witness == Len(fmtStack) >= 3

NoBlankLineSeparator ==
    ~ \E i, j, k \in 1..Len(RawLines) :
        /\ i < j /\ j < k
        /\ RawLines[i] /= <<>> /\ RawLines[j] = <<>> /\ RawLines[k] /= <<>>

NoMarkerLine ==
    \A i \in 1..Len(RawLines) :
        /\ NumberedMarkerLen(RawLines[i]) = 0
        /\ BulletMarkerLen(RawLines[i]) = 0
        /\ StepMarkerLen(RawLines[i]) = 0

OneJoinedParagraph ==
    fmtNodes = <<ParagraphNode(Join(NonEmptyRawLines, <<" ">>))>>

\* C7 as stated: a text with no blank-line separator and no marker line yields
\* exactly one Paragraph, the non-empty trimmed lines joined by single spaces.
\* (Stated for the texts that have a line; an empty or blank text, for which the
\* formatter returns no block, refutes it as well.)
C7_UnmarkedTextIsOneParagraph ==
    (fmtPc = "done" /\ NoBlankLineSeparator /\ NoMarkerLine
        /\ NonEmptyRawLines /= <<>>) => OneJoinedParagraph

\* C7 as amended: ... provided the text has a non-empty line and its first
\* non-empty line does not end with a colon, unless it is the only one.
C7_UnmarkedNonHeadingTextIsOneParagraph ==
    ( /\ fmtPc = "done" /\ NoBlankLineSeparator /\ NoMarkerLine
      /\ NonEmptyRawLines /= <<>>
      /\ \/ Len(NonEmptyRawLines) = 1
         \/ NonEmptyRawLines[1][Len(NonEmptyRawLines[1])] /= ":" )
    => OneJoinedParagraph

\* A finished run on several unmarked lines, one ending with a colon, that
\* became one paragraph
C7_Witness ==
    /\ fmtPc = "done" /\ NoBlankLineSeparator /\ NoMarkerLine
    /\ Len(NonEmptyRawLines) >= 2
    /\ NonEmptyRawLines[1][Len(NonEmptyRawLines[1])] /= ":"
    /\ \E i \in 2..Len(NonEmptyRawLines) :
          NonEmptyRawLines[i][Len(NonEmptyRawLines[i])] = ":"
    /\ OneJoinedParagraph

(***************************************************************************)
(* Claims on the filter pass, the selection and the debounce               *)
(***************************************************************************)

\* The step ends a filter pass: applyFilters reaches displayProducts
PassCompletes ==
    \/ \E k \in 1..MaxPasses : PassLoaded(k)
    \/ /\ allProducts /= <<>>
       /\ \/ \E c \in Categories : CategoryChange(c)
          \/ \E tm \in timers : TimerFires(tm)

\* Product p passes both filters
Matches(p, category, value) ==
    /\ category = "" \/ p.category = category
    /\ \/ Trim(value) = <<>>
       \/ LET text == p.name \o <<" ">> \o p.brand \o <<" ">> \o p.description
          IN  Includes(ToLowerCase(text), ToLowerCase(Trim(value)))

\* cards shows, in the order of products, the products that pass and no other
ShowsMatches(cards, products, category, value) ==
    LET hits == {i \in 1..Len(products) : Matches(products[i], category, value)}
        before(i) == Cardinality({j \in hits : j < i})
    IN  /\ Len(cards) = Cardinality(hits)
        /\ \A i \in hits :
              /\ cards[before(i) + 1].name = products[i].name
              /\ cards[before(i) + 1].brand = products[i].brand
              /\ cards[before(i) + 1].image = products[i].image

SameProducts(cards, others) ==
    /\ Len(cards) = Len(others)
    /\ \A i \in 1..Len(cards) :
          /\ cards[i].name = others[i].name
          /\ cards[i].brand = others[i].brand
          /\ cards[i].image = others[i].image

\* C8: every filter pass displays the catalog's products of the selected
\* category (if one is selected) whose lower-cased name, brand and description
\* text contains the trimmed, lower-cased query (if it is not empty), in catalog
\* order and no other card; with no category and an empty query that is the
\* whole catalog; and a pass that reads the inputs the grid already shows
\* displays the same products again.
C8_PassShowsMatchesInCatalogOrder ==
    [][PassCompletes =>
        /\ ShowsMatches(grid', allProducts', categoryValue', searchValue')
        /\ (categoryValue' = "" /\ Trim(searchValue') = <<>>)
              => SameProducts(grid', allProducts')
        /\ ShowsMatches(grid, allProducts', categoryValue', searchValue')
              => SameProducts(grid', grid)]_vars

\* C8 witness: passes have run, and the grid shows the one moisturizer whose
\* text holds "lo", out of two moisturizers and two products that hold "lo"
C8_Witness ==
    /\ categoryValue = "moisturizer"
    /\ searchValue = <<" ", "L", "O", " ">>
    /\ timers = {} /\ timerPasses = 1 /\ passes = <<>>
    /\ Len(grid) = 1
    /\ grid[1].name = <<"C", "d">>

PositionOf(map, key) == CHOOSE i \in 1..Len(map) : map[i].key = key

ToggleTwice(map, card) == ToggleSelected(ToggleSelected(map, card), card)

\* C9 as the text has it: for every selection and every card displayed, two
\* clicks on the card leave its key as absent or as present as it was, and a
\* key they add again is at the position it had.
C9_ToggleTwiceKeepsPosition ==
    \A i \in 1..Len(grid) :
        LET k == grid[i].key
            t == ToggleTwice(selectedProducts, grid[i])
        IN  /\ MapHas(t, k) = MapHas(selectedProducts, k)
            /\ MapHas(selectedProducts, k)
                  => PositionOf(t, k) = PositionOf(selectedProducts, k)

\* C9: for every selection and every card displayed, two clicks on the card
\* leave its key as absent or as present as it was; a key they add again is
\* the last of the snapshot, and the other keys keep their order.
C9_ToggleTwiceMovesKeyLast ==
    \A i \in 1..Len(grid) :
        LET k == grid[i].key
            t == ToggleTwice(selectedProducts, grid[i])
        IN  /\ MapHas(t, k) = MapHas(selectedProducts, k)
            /\ MapDelete(t, k) = MapDelete(selectedProducts, k)
            /\ MapHas(selectedProducts, k) => PositionOf(t, k) = Len(t)

\* C9 witness: two products are selected by clicks, and the grid shows a card
\* of the first
C9_Witness ==
    /\ Len(selectedProducts) = 2
    /\ \E i \in 1..Len(grid) :
          /\ grid[i].key = selectedProducts[1].key
          /\ grid[i].selected

\* C10: at most one timeout is pending; an input leaves pending the one timeout
\* it starts, due in 160 ms; while a timeout is pending it is the last input's,
\* due 160 ms after that input, and no pass has started since that input; when
\* none is pending after an input, 160 ms have passed since the last input and
\* exactly one pass has started.
C10_TrailingDebounce ==
    /\ Cardinality(timers) <= 1
    /\ \A tm \in timers :
          /\ tm.id = debT
          /\ tm.left = WaitMs - sinceInput
          /\ timerPasses = 0
    /\ (timers = {} /\ debT /= 0) => (sinceInput = WaitMs /\ timerPasses = 1)
    /\ debT = 0 => (timers = {} /\ timerPasses = 0)

\* C10 witness: inputs have restarted the timeout, 160 ms have passed since
\* the last of them, and its one pass has run
C10_Witness ==
    /\ debT = 2
    /\ timers = {}
    /\ sinceInput = WaitMs
    /\ timerPasses = 1

(***************************************************************************)
(* Claims on the conversation history                                      *)
(***************************************************************************)

IsPrefix(a, b) == Len(a) <= Len(b) /\ SubSeq(b, 1, Len(a)) = a

Last(seq) == seq[Len(seq)]

\* The step adds one message of this role, and touches no other
AddsOne(role) ==
    /\ Len(conversationMessages') = Len(conversationMessages) + 1
    /\ IsPrefix(conversationMessages, conversationMessages')
    /\ Last(conversationMessages').role = role

\* The step is the handling of a failure of request r
FailureOf(r) == HttpError(r) \/ EmptyReply(r) \/ FetchThrows(r)

\* The step is a chat action that finds no key
RefusedForKey == ~apiKey /\ (GenerateClick \/ \E raw \in UserInputs : ChatSubmit(raw))

\* The step renders one failure notice, after what the chat action itself renders
RendersOneNotice(before) ==
    /\ Len(chatWindow') = Len(chatWindow) + before + 1
    /\ SubSeq(chatWindow', 1, Len(chatWindow)) = chatWindow
    /\ Last(chatWindow').cls = "chat-assistant"
    /\ Last(chatWindow').text \in FailureNotices
    /\ \A i \in (Len(chatWindow) + 1)..(Len(chatWindow) + before) :
          chatWindow'[i].text \notin FailureNotices

\* C1: the first message of the history is the system message, in every state,
\* and the history before a step is a prefix of the history after it, whatever
\* the step: a submit, a generate click, a reply, a failure, a category change,
\* a card click, a remove click.
C1_HistoryAppendOnly ==
    /\ [](Len(conversationMessages) >= 1 /\ conversationMessages[1] = SystemMessage)
    /\ [][IsPrefix(conversationMessages, conversationMessages')]_vars

\* C1 witness: two user messages and two replies have been pushed
C1_Witness ==
    /\ Len(conversationMessages) = 5
    /\ requests = {}

\* C2 as the text has it: every submit and every generate click adds one user
\* message, and every reply adds one assistant message holding the reply text.
C2_EveryChatActionAddsUserMessage ==
    [][/\ (GenerateClick \/ \E raw \in UserInputs : ChatSubmit(raw))
            => AddsOne("user")
       /\ \A r \in requests : \A content \in Replies :
            ReplyArrives(r, content)
                => conversationMessages' =
                     Append(conversationMessages,
                            [role |-> "assistant", content |-> content])]_vars

\* C2: a submit of a text that is not blank adds one user message, the text
\* trimmed; a generate click with a product selected adds one user message, the
\* prompt; the request either sends, if any, holds that message; a generate
\* click with no product selected adds no message and sends no request; and a
\* reply adds one assistant message holding the reply text as it came.
C2_ChatActionWithInputAddsUserMessage ==
    [][/\ \A raw \in UserInputs :
            ChatSubmit(raw)
                => /\ AddsOne("user")
                   /\ Last(conversationMessages').content = Trim(raw)
       /\ (GenerateClick /\ selectedProducts /= <<>>)
            => /\ AddsOne("user")
               /\ Last(conversationMessages').content
                    = UserPrompt(MapValues(selectedProducts))
       /\ (GenerateClick /\ selectedProducts = <<>>)
            => /\ UNCHANGED <<conversationMessages, requests>>
               /\ chatWindow' = Append(chatWindow, AssistantEntry(PleaseSelectNotice))
       /\ \A r \in requests' \ requests :
            Last(r.messages) = Last(conversationMessages')
       /\ \A r \in requests : \A content \in Replies :
            ReplyArrives(r, content)
                => conversationMessages' =
                     Append(conversationMessages,
                            [role |-> "assistant", content |-> content])]_vars

\* C2 witness: a generate click with two products selected and a submit have
\* each pushed a user message, and each has its reply
C2_Witness ==
    /\ Len(conversationMessages) = 5
    /\ Len(selectedProducts) = 2
    /\ \E i \in 2..3 :
          conversationMessages[i].content = UserPrompt(MapValues(selectedProducts))
    /\ \E i \in 2..3 : conversationMessages[i].content = <<"h", "i", "?">>
    /\ conversationMessages[5].content \in Replies

\* C3 as the text has it: when the failure of a request is handled, the history
\* is the history right after the user message of that request was pushed, the
\* one the request holds.
C3_HistoryAfterFailureIsHistoryAtSend ==
    [][\A r \in requests :
          FailureOf(r) => conversationMessages' = r.messages]_vars

\* C3: the handling of a failure of a request (an HTTP status that is not ok, no
\* reply in the body, a throw) leaves the history as it is, the history the
\* request holds a prefix of it, and renders one failure notice; a chat action
\* that finds no key pushes its user message, sends no request and renders one
\* failure notice after its user entry; neither adds an assistant message.
C3_FailureLeavesHistory ==
    [][/\ \A r \in requests :
            FailureOf(r)
                => /\ UNCHANGED conversationMessages
                   /\ IsPrefix(r.messages, conversationMessages')
                   /\ Last(r.messages).role = "user"
                   /\ RendersOneNotice(0)
       /\ (RefusedForKey /\ conversationMessages' /= conversationMessages)
            => /\ AddsOne("user")
               /\ UNCHANGED requests
               /\ RendersOneNotice(1)]_vars

\* C3 witness: a request has failed after a later user message was pushed, and
\* that later request is still out
C3_Witness ==
    /\ Len(conversationMessages) = 3
    /\ \E r \in requests : r.messages = conversationMessages
    /\ Len(chatWindow) = 5
    /\ chatWindow[5].text \in FailureNotices

NewRequests == requests' \ requests

\* C4: a request sent in a step holds the history as the step leaves it, whole:
\* the system message first, every message pushed so far, and last the user
\* message the step pushes.
C4_RequestCarriesWholeHistory ==
    [][\A r \in NewRequests :
          /\ r.messages = conversationMessages'
          /\ r.messages[1] = SystemMessage
          /\ AddsOne("user")
          /\ Last(r.messages) = Last(conversationMessages')]_vars

\* C4 witness: a request is out that holds the system message, a user message,
\* its reply and a second user message
C4_Witness ==
    \E r \in requests :
        /\ Len(r.messages) = 4
        /\ r.messages[3].role = "assistant"
        /\ r.messages[4].role = "user"

(***************************************************************************)
(* Claims on the catalog fetches and the passes waiting for them           *)
(***************************************************************************)

\* The step calls loadProducts from applyFilters: one more call waits
FetchStarts ==
    /\ Len(passes') = Len(passes) + 1
    /\ SubSeq(passes', 1, Len(passes)) = passes

FetchFails == StartupFailed \/ \E k \in 1..MaxPasses : PassFailed(k)

\* C12 as the text has it: whichever fetch fails, the step logs the failure,
\* leaves the cache as it is, and leaves no call rejected with no handler.
C12_EveryFetchFailureCaught ==
    [][FetchFails
          => /\ Len(consoleErrors') = Len(consoleErrors) + 1
             /\ allProducts' = allProducts
             /\ rejections' = rejections]_vars

(***************************************************************************)
(* Claims on requests out at the same time, and on the roles               *)
(***************************************************************************)

\* C13: a reply is pushed when it arrives, at the end of the history as it is
\* then, whatever was pushed since its request was sent; the other requests
\* stay out; and every request out holds a prefix of the history, so nothing
\* keeps a chat action from sending while a request is out.
C13_RepliesLandInResolutionOrder ==
    /\ [](\A r \in requests : IsPrefix(r.messages, conversationMessages))
    /\ [][\A r \in requests : \A content \in Replies :
            ReplyArrives(r, content)
                => /\ Last(conversationMessages').role = "assistant"
                   /\ Last(conversationMessages').content = content
                   /\ Len(conversationMessages') = Len(conversationMessages) + 1
                   /\ requests' = requests \ {r}]_vars

\* C13 witness: two requests were out at once, the reply to the second is in
\* the history, and the first, sent before the second user message, is still
\* out: its reply will come after the reply to the later message
C13_Witness ==
    /\ Len(conversationMessages) = 4
    /\ conversationMessages[2].role = "user"
    /\ conversationMessages[3].role = "user"
    /\ conversationMessages[4].role = "assistant"
    /\ \E r \in requests : Len(r.messages) = 2

\* The passes in progress that the timer started
TimerPassesWaiting == {k \in 1..Len(passes) : passes[k] = "timer"}

\* C14 as the text has it: at most one pass the timer started is in progress.
C14_OneTimerPassInProgress == Cardinality(TimerPassesWaiting) <= 1

\* C14: a pass the timer starts with products in the cache ends in the step
\* that starts it, so no two of these overlap; one it starts with the cache
\* empty waits for its fetch, after the passes already waiting, however many of
\* them the timer started.
C14_TimerPassEndsOrWaits ==
    [][\A tm \in timers :
          TimerFires(tm)
              => IF allProducts /= <<>>
                 THEN /\ passes' = passes
                      /\ ShowsMatches(grid', allProducts, categoryValue, searchValue)
                 ELSE /\ passes' = Append(passes, "timer")
                      /\ grid' = grid]_vars

\* C14 witness: two passes the timer started wait for the catalog
C14_Witness ==
    /\ passes = <<"timer", "timer">>
    /\ allProducts = <<>>

(***************************************************************************)
(* Claims on the selection and the grid                                    *)
(***************************************************************************)

\* The step is a click that the selection handlers take
SelectionClick ==
    \/ \E i \in 1..Len(Catalog) : CardClick(i)
    \/ \E j \in 1..Len(Catalog) : RemoveClick(j)

\* C15: a step that ends a filter pass leaves the selection map as it is, keys
\* and order, and lists every product of it, displayed or not; and a step that
\* changes the map is a card click or a remove click.
C15_FilteringLeavesSelection ==
    [][/\ PassCompletes
            => /\ selectedProducts' = selectedProducts
               /\ Len(selectedList') = Len(selectedProducts)
               /\ \A n \in 1..Len(selectedProducts) :
                     selectedList'[n].key = selectedProducts[n].key
       /\ selectedProducts' /= selectedProducts => SelectionClick]_vars

\* C15 witness: after the pass of a search input, a product is selected that
\* the grid does not display, next to one it displays
C15_Witness ==
    /\ timerPasses = 1 /\ timers = {} /\ passes = <<>>
    /\ Len(grid) = 1
    /\ Len(selectedProducts) = 2
    /\ \E n \in 1..2 : selectedProducts[n].key /= grid[1].key
    /\ \A n \in 1..2 : selectedList[n].key = selectedProducts[n].key

(***************************************************************************)
(* Claims on a paragraph that mixes the markers                            *)
(***************************************************************************)

NumberedLines == {i \in 1..Len(RawLines) : NumberedMarkerLen(RawLines[i]) > 0}

BulletLines == {i \in 1..Len(RawLines) : BulletMarkerLen(RawLines[i]) > 0}

StepLines == {i \in 1..Len(RawLines) : StepMarkerLen(RawLines[i]) > 0}

\* The text is one paragraph, its first line no heading, with a numbered line
\* and a bullet line, and the formatter has returned
MixedUnitDone ==
    /\ fmtPc = "done"
    /\ NoBlankLineSeparator
    /\ ~IsHeading(NonEmptyRawLines)
    /\ NumberedLines /= {}
    /\ BulletLines /= {}

\* C16 as the text has it: a paragraph with a numbered line and a bullet line
\* yields no list, only the one paragraph of its lines joined.
C16_MixedUnitIsParagraph == MixedUnitDone => OneJoinedParagraph

\* C16: a paragraph with a numbered line and a bullet line yields one block: the
\* ordered list of its "Step N" lines, one item each, when two lines or more
\* start with "Step N", and otherwise the one paragraph of its lines joined;
\* never a list of its numbered lines or of its bullet lines.
C16_MixedUnitIsStepListOrParagraph ==
    MixedUnitDone =>
        IF Cardinality(StepLines) >= 2
        THEN /\ Len(fmtNodes) = 1
             /\ fmtNodes[1].tag = "ol"
             /\ Len(fmtNodes[1].items) = Cardinality(StepLines)
        ELSE OneJoinedParagraph

\* C16 witness: a numbered line, a bullet line and a "Step N" line became one
\* paragraph
C16_Witness ==
    /\ MixedUnitDone
    /\ Cardinality(StepLines) = 1
    /\ OneJoinedParagraph

(***************************************************************************)
(* Claims on the roles of the history                                      *)
(***************************************************************************)

\* How many of the first n messages have the role
RoleCount(role, n) ==
    Cardinality({i \in 1..n : conversationMessages[i].role = role})

\* C17: every prefix of the history holds at most as many assistant messages as
\* user messages (so a user message comes before every assistant message), the
\* first message has the system role and no other has, and every other message
\* is a user's or the assistant's.
C17_RolesOfHistory ==
    /\ conversationMessages[1].role = "system"
    /\ \A n \in 2..Len(conversationMessages) :
          /\ conversationMessages[n].role \in {"user", "assistant"}
          /\ RoleCount("assistant", n) <= RoleCount("user", n)

\* C17 witness: two user messages in a row, the first with no reply after its
\* request failed, the second with its reply
C17_Witness ==
    /\ Len(conversationMessages) = 4
    /\ conversationMessages[2].role = "user"
    /\ conversationMessages[3].role = "user"
    /\ conversationMessages[4].role = "assistant"
    /\ requests = {}
    /\ \E i \in 1..Len(chatWindow) : chatWindow[i].text \in FailureNotices

(***************************************************************************)
(* Claims on the grid                                                      *)
(***************************************************************************)

\* C18 as the text has it: every card of the grid is marked selected exactly
\* when the selection map has its key, two cards of one key included.
C18_MarkedIffSelected ==
    \A i \in 1..Len(grid) :
        grid[i].selected <=> MapHas(selectedProducts, grid[i].key)

\* No timer is pending and no pass waits for the catalog
Quiet == timers = {} /\ passes = <<>>

\* A pass has been started: one has displayed products, or an input differs
\* from what it was when the page loaded
PassTriggered == grid /= <<>> \/ categoryValue /= "" \/ searchValue /= <<>>

\* C19: while every fetch of the catalog succeeds, whenever a pass has been
\* started, no timer is pending and no pass waits, the grid shows the products
\* of the catalog that pass the category and the search text as they are now,
\* in catalog order, in whatever order the passes ended.
C19_GridShowsCurrentInputs ==
    (Quiet /\ PassTriggered)
        => /\ allProducts = Catalog
           /\ ShowsMatches(grid, Catalog, categoryValue, searchValue)

\* C19 witness: the passes of a category change and of a search input have
\* waited for fetches of their own (the startup fetch is still out), all have
\* ended, and the grid shows the one product that passes both filters
C19_Witness ==
    /\ Quiet
    /\ startup = "pending"
    /\ categoryValue = "moisturizer"
    /\ searchValue = <<"b", " ", "m">>
    /\ timerPasses = 1
    /\ Len(grid) = 1
    /\ grid[1].brand = <<"M", "a">>

====
